---- MODULE Spec2Model ----
(***************************************************************************)
(* Model of the brain/edge dispatch protocol of brain_edge_interaction.py  *)
(* (class BrainEdgeSystem) together with the backend wrapper it calls,     *)
(* FireworksAPI.get_completion of test_fireworks.py.                       *)
(*                                                                         *)
(* A text is a sequence of tokens.  A token is a string: an opening tag    *)
(* "<name>", a closing tag "</name>", a whitespace character (" ", "\n")   *)
(* or any other character.  The regular expressions of the code only look  *)
(* for whole tags, so tags are single tokens.                              *)
(***************************************************************************)
EXTENDS Integers, Sequences, FiniteSets, TLC

\* Number of process_situation calls made on the one instance.
MaxRuns == 2

----------------------------------------------------------------------------
(* Texts, tags and the two library functions the parsers are made of.      *)

Open(tag) == "<" \o tag \o ">"
Close(tag) == "</" \o tag \o ">"

\* str.strip() removes the characters str.isspace() accepts.
IsSpace(tok) == tok \in {" ", "\n"}

RECURSIVE LStrip(_)
LStrip(text) ==
    IF text # <<>> /\ IsSpace(Head(text)) THEN LStrip(Tail(text)) ELSE text

RECURSIVE RStrip(_)
RStrip(text) ==
    IF text # <<>> /\ IsSpace(text[Len(text)])
    THEN RStrip(SubSeq(text, 1, Len(text) - 1))
    ELSE text

\* Variant of Strip: rstrip() only.
StripKeepsLeft(text) == RStrip(text)

\* str.strip()
Strip(text) == RStrip(LStrip(text))

\* Least index i >= from with text[i] = tok, 0 when there is none.
Find(text, tok, from) ==
    IF \E i \in from..Len(text) : text[i] = tok
    THEN CHOOSE i \in from..Len(text) :
             /\ text[i] = tok
             /\ \A j \in from..(i - 1) : text[j] # tok
    ELSE 0

NoMatch == [found |-> FALSE, group |-> <<>>]

\* Variant of Search: a greedy group, ending at the last closing tag.
SearchLastClose(tag, text) ==
    LET o == Find(text, Open(tag), 1)
        cs == {i \in 1..Len(text) : i > o /\ text[i] = Close(tag)}
    IN  IF o = 0 \/ cs = {} THEN NoMatch
        ELSE [found |-> TRUE,
              group |-> SubSeq(text, o + 1,
                               (CHOOSE c \in cs : \A d \in cs : d <= c) - 1)]

\* re.search(r'<tag>(.*?)</tag>', text, re.DOTALL): the match starts at the
\* leftmost opening tag after which a closing tag occurs, which is the first
\* opening tag (a closing tag after a later opening tag also follows the first
\* one); the lazy group ends at the first closing tag after it; with DOTALL
\* the group may hold any token, newlines included.
Search(tag, text) ==
    LET o == Find(text, Open(tag), 1)
        c == IF o = 0 THEN 0 ELSE Find(text, Close(tag), o + 1)
    IN  IF o = 0 \/ c = 0 THEN NoMatch
        ELSE [found |-> TRUE, group |-> SubSeq(text, o + 1, c - 1)]

----------------------------------------------------------------------------
(* Values.                                                                 *)

\* Optional[str]: the value get_completion returns.
Some(text) == [some |-> TRUE, val |-> text]
None == [some |-> FALSE, val |-> <<>>]

\* The dictionary with no key.
EmptyDict == [k \in {} |-> <<>>]

\* The agent names passed to log_thought.
BrainAgent == "Brain (R1)"
Edge1Agent == "Edge1 (V3)"
Edge2Agent == "Edge2 (V3)"

\* FireworksAPI.models: the names of the model objects.
ModelNames == {"deepseek", "llama", "deepseek-v3"}

\* self.brain and self.edge_instances[0], [1]: the model object each role
\* calls.  Both edge roles hold the same object.
ModelOf(role) == IF role = "brain" THEN "deepseek" ELSE "deepseek-v3"

\* The keys parse_brain_response may store and the tag each is read from.
BrainKeys == {"thinking", "reasoning", "edge1_command", "edge2_command"}

\* Variant of TagOf: the two command keys read each other's tag.
TagOfSwapped(key) ==
    CASE key = "thinking" -> "thinking"
      [] key = "reasoning" -> "reasoning"
      [] key = "edge1_command" -> "edge2"
      [] key = "edge2_command" -> "edge1"

TagOf(key) ==
    CASE key = "thinking" -> "thinking"
      [] key = "reasoning" -> "reasoning"
      [] key = "edge1_command" -> "edge1"
      [] key = "edge2_command" -> "edge2"

\* The prompts: the f-strings embed the situation or the command in a fixed
\* template.  The templates spell out the tags they ask for, so a prompt is
\* itself a tagged text; the two edge templates are the same text.
BrainPrompt(situation) ==
    <<"Given this situation: ">> \o situation \o
    <<"\n", "<thinking>", "Share your step-by-step thought process here", "</thinking>",
      "\n", "<reasoning>", "Explain your final decision-making process here", "</reasoning>",
      "\n", "<edge1>", "Write the specific command for the first edge instance here", "</edge1>",
      "\n", "<edge2>", "Write the specific command for the second edge instance here", "</edge2>",
      "\n">>

EdgePrompt(command) ==
    <<"You are a V3 edge instance. Execute this command directly: ">> \o command \o
    <<"\n", "<thinking>", "Your approach", "</thinking>",
      "\n", "<response>", "Your actual output", "</response>", "\n">>

----------------------------------------------------------------------------
(* The inputs: situations and the texts the backend may answer with.       *)

Situations == {<<"s">>}

Section(tag, body) == <<Open(tag)>> \o body \o <<Close(tag)>>

BrainTexts ==
    { <<"x">>,
      Section("thinking", <<"t">>),
      Section("edge1", <<" ", "a", " ">>),
      Section("edge2", <<"b">>),
      Section("edge2", <<"b">>) \o Section("edge1", <<"a">>),
      Section("thinking", <<"\n", "t", "\n">>) \o Section("reasoning", <<"r">>)
          \o Section("edge1", <<"a">>) \o <<"\n">> \o Section("edge2", <<"b">>) }

EdgeTexts ==
    { Section("thinking", <<"p">>) \o Section("response", <<" ", "y", "\n">>),
      Section("response", <<"y">>) \o Section("response", <<"z">>),
      <<" ">> \o Section("thinking", <<"p">>) \o <<"<response>", "y", "\n">> }

\* What a backend call may come back with: a text, or a request failure.
Outcomes(texts) == {Some(t) : t \in texts} \cup {None}

----------------------------------------------------------------------------
(* State.                                                                  *)

VARIABLES
    api_key,          \* os.getenv('FIREWORKS_API_KEY'), held as FireworksAPI.api_key
    verbose,          \* self.verbose
    thought_log,      \* the list object self.thought_log refers to
    model_responses,  \* FireworksModel.responses of each model object
    clock,            \* number of datetime.now() readings so far
    pc,               \* where the caller or process_situation stands
    situation,        \* process_situation's argument
    brain_response,   \* local of process_situation
    decisions,        \* local of process_situation / commands of execute_edge_commands
    responses,        \* local of execute_edge_commands
    returned,         \* the result dictionaries returned so far, held by the caller
    calls,            \* history: every requests.post of get_completion
    emitted,          \* history: log_thought calls made in each run
    runs              \* number of process_situation calls so far

vars == <<api_key, verbose, thought_log, model_responses, clock, pc, situation,
          brain_response, decisions, responses, returned, calls, emitted, runs>>

\* The value stored under result["thought_log"]: not a copy but the list
\* object self.thought_log itself.
ThoughtLogRef == "self.thought_log"

\* The list a stored reference denotes now.
Deref(ref) == thought_log

\* Variant of LogThought: the entry is appended twice.
LogThoughtTwice(log, agent, thought, now) ==
    IF verbose
    THEN Append(Append(log, [timestamp |-> now, agent |-> agent, thought |-> thought]),
                [timestamp |-> now, agent |-> agent, thought |-> thought])
    ELSE log

\* Variant of LogThought: the newest entry is put in front.
LogThoughtFront(log, agent, thought, now) ==
    IF verbose
    THEN <<[timestamp |-> now, agent |-> agent, thought |-> thought]>> \o log
    ELSE log

\* log_thought: the log after the call, now being the clock reading.
LogThought(log, agent, thought, now) ==
    IF verbose
    THEN Append(log, [timestamp |-> now, agent |-> agent, thought |-> thought])
    ELSE log

\* log_thought reads the clock only in verbose mode.
LogTicks == IF verbose THEN 1 ELSE 0

\* get_completion reads the clock only when the request succeeded.
CallTicks(r) == IF r.some THEN 1 ELSE 0

\* Variant of Recorded: a failed request leaves a record with an empty text.
RecordedAlways(hist, model, prompt, r, now) ==
    [hist EXCEPT ![model] =
         Append(@, [prompt |-> prompt, response |-> r.val, timestamp |-> now])]

\* get_completion, lines 61-66: a successful call is recorded in the model
\* object's history; a failed request leaves it alone.
Recorded(hist, model, prompt, r, now) ==
    IF r.some
    THEN [hist EXCEPT ![model] =
              Append(@, [prompt |-> prompt, response |-> r.val, timestamp |-> now])]
    ELSE hist

\* get_completion, line 57: the request is posted.
Posted(run, role, prompt) ==
    Append(calls, [run |-> run, role |-> role, model |-> ModelOf(role),
                   prompt |-> prompt, status |-> "pending", text |-> <<>>])

\* get_completion, lines 58-71: the posted request is answered.
Answered(r) ==
    [calls EXCEPT ![Len(calls)] =
        [@ EXCEPT !.status = IF r.some THEN "ok" ELSE "error", !.text = r.val]]

\* Variant of KeyMissing: the test is left out.
KeyMissingNever(key) == FALSE

\* _load_api_key, line 41: `not api_key` holds of None and of the empty text.
KeyMissing(key) == ~key.some \/ key.val = <<>>

\* The state after BrainEdgeSystem(verbose) has been constructed, which takes
\* a key in the environment.
Init ==
    /\ api_key = Some(<<"k">>)
    /\ verbose \in BOOLEAN
    /\ thought_log = <<>>
    /\ model_responses = [m \in ModelNames |-> <<>>]
    /\ clock = 0
    /\ pc = "Idle"
    /\ situation = <<>>
    /\ brain_response = <<>>
    /\ decisions = EmptyDict
    /\ responses = <<>>
    /\ returned = <<>>
    /\ calls = <<>>
    /\ emitted = <<>>
    /\ runs = 0

----------------------------------------------------------------------------
(* The pure parts of the handlers.                                         *)

\* Variant of OrEmpty: str() of the value instead of `or ""`.
OrNoneText(r) == IF r.some THEN r.val ELSE <<"None">>

\* brain_decide, line 93: get_completion(...) or "".
OrEmpty(r) == IF r.some THEN r.val ELSE <<>>

\* Variant of ParseBrainResponse: a missing tag stores an empty text.
ParseWithDefaults(response) ==
    [k \in BrainKeys |->
        IF Search(TagOf(k), response).found
        THEN Strip(Search(TagOf(k), response).group)
        ELSE <<>>]

\* Variant of ParseBrainResponse: a tag with nothing left after strip() is
\* treated as missing.
ParseDropEmpty(response) ==
    [k \in {key \in BrainKeys : /\ Search(TagOf(key), response).found
                                /\ Strip(Search(TagOf(key), response).group) # <<>>} |->
        Strip(Search(TagOf(k), response).group)]

\* parse_brain_response, lines 101-120: the dictionary it returns.
ParseBrainResponse(response) ==
    [k \in {key \in BrainKeys : Search(TagOf(key), response).found} |->
        Strip(Search(TagOf(k), response).group)]

\* Variant of EdgeResponse: the group without strip().
EdgeResponseUntrimmed(raw) ==
    IF Search("response", raw).found THEN Search("response", raw).group ELSE raw

\* execute_edge_commands, lines 144/148 and 166/170: the entry a worker's
\* text contributes.
EdgeResponse(raw) ==
    IF Search("response", raw).found THEN Strip(Search("response", raw).group) ELSE raw

\* Variant of AppendResponse: insert(0, ...).
PrependResponse(list, entry) == <<entry>> \o list

\* responses.append(...)
AppendResponse(list, entry) == Append(list, entry)

\* Variant of BuildResult: the log is attached whatever verbose is.
BuildResultWithLog(d, e, raw) ==
    [brain_decisions |-> d, edge_responses |-> e, raw_brain_response |-> raw,
     thought_log |-> ThoughtLogRef]

\* process_situation, lines 187-194: the dictionary it returns.
BuildResult(d, e, raw) ==
    IF verbose
    THEN [brain_decisions |-> d, edge_responses |-> e, raw_brain_response |-> raw,
          thought_log |-> ThoughtLogRef]
    ELSE [brain_decisions |-> d, edge_responses |-> e, raw_brain_response |-> raw]

\* One more log_thought call in the current run.
Emit == [emitted EXCEPT ![runs] = @ + 1]

----------------------------------------------------------------------------
(* Actions.                                                                *)

\* Variant of process_situation: the workers are dispatched on the tags of
\* the prompt template while the coordinator's request is still in flight.
process_situation_eager(s) ==
    /\ pc \in {"Idle", "Done", "Raised"}
    /\ runs < MaxRuns
    /\ runs' = runs + 1
    /\ situation' = s
    /\ brain_response' = <<>>
    /\ decisions' = ParseBrainResponse(BrainPrompt(s))
    /\ responses' = <<>>
    /\ thought_log' = LogThought(thought_log, BrainAgent, <<"Analyzing situation: ">> \o s, clock)
    /\ clock' = clock + LogTicks
    /\ emitted' = Append(emitted, 1)
    /\ calls' = Posted(runs + 1, "brain", BrainPrompt(s))
    /\ pc' = "Dispatching1"
    /\ UNCHANGED <<api_key, verbose, model_responses, returned>>

\* Variant of process_situation: every call starts a new, empty log.
process_situation_fresh_log(s) ==
    /\ pc \in {"Idle", "Done", "Raised"}
    /\ runs < MaxRuns
    /\ runs' = runs + 1
    /\ situation' = s
    /\ brain_response' = <<>>
    /\ decisions' = EmptyDict
    /\ responses' = <<>>
    /\ thought_log' = LogThought(<<>>, BrainAgent, <<"Analyzing situation: ">> \o s, clock)
    /\ clock' = clock + LogTicks
    /\ emitted' = Append(emitted, 1)
    /\ calls' = Posted(runs + 1, "brain", BrainPrompt(s))
    /\ pc' = "Deciding"
    /\ UNCHANGED <<api_key, verbose, model_responses, returned>>

\* The caller calls process_situation, which calls brain_decide: lines 179,
\* 66-93 up to the point where get_completion has posted its request.
process_situation(s) ==
    /\ pc \in {"Idle", "Done", "Raised"}
    /\ runs < MaxRuns
    /\ runs' = runs + 1
    /\ situation' = s
    /\ brain_response' = <<>>
    /\ decisions' = EmptyDict
    /\ responses' = <<>>
    /\ thought_log' = LogThought(thought_log, BrainAgent, <<"Analyzing situation: ">> \o s, clock)
    /\ clock' = clock + LogTicks
    /\ emitted' = Append(emitted, 1)
    /\ calls' = Posted(runs + 1, "brain", BrainPrompt(s))
    /\ pc' = "Deciding"
    /\ UNCHANGED <<api_key, verbose, model_responses, returned>>

\* Variant of brain_decide: the confirming entry is logged only when the
\* request brought a text back.
brain_decide_silent(r) ==
    /\ pc = "Deciding"
    /\ calls' = Answered(r)
    /\ model_responses' = Recorded(model_responses, ModelOf("brain"),
                                   BrainPrompt(situation), r, clock)
    /\ brain_response' = OrEmpty(r)
    /\ IF r.some
       THEN /\ thought_log' = LogThought(thought_log, BrainAgent,
                                  <<"Generated response with commands for edge instances">>,
                                  clock + 1)
            /\ clock' = clock + 1 + LogTicks
            /\ emitted' = Emit
       ELSE UNCHANGED <<thought_log, clock, emitted>>
    /\ pc' = "Parsing"
    /\ UNCHANGED <<api_key, verbose, situation, decisions, responses, returned, runs>>

\* The rest of brain_decide: get_completion comes back with r (lines 58-71),
\* then lines 93-95.
brain_decide(r) ==
    /\ pc = "Deciding"
    /\ calls' = Answered(r)
    /\ model_responses' = Recorded(model_responses, ModelOf("brain"),
                                   BrainPrompt(situation), r, clock)
    /\ brain_response' = OrEmpty(r)
    /\ thought_log' = LogThought(thought_log, BrainAgent,
                                 <<"Generated response with commands for edge instances">>,
                                 clock + CallTicks(r))
    /\ clock' = clock + CallTicks(r) + LogTicks
    /\ emitted' = Emit
    /\ pc' = "Parsing"
    /\ UNCHANGED <<api_key, verbose, situation, decisions, responses, returned, runs>>

\* parse_brain_response, called at line 182.
parse_brain_response ==
    /\ pc = "Parsing"
    /\ decisions' = ParseBrainResponse(brain_response)
    /\ IF "thinking" \in DOMAIN ParseBrainResponse(brain_response)
       THEN /\ thought_log' = LogThought(thought_log, BrainAgent,
                                  <<"Thought process: ">> \o ParseBrainResponse(brain_response)["thinking"],
                                  clock)
            /\ clock' = clock + LogTicks
            /\ emitted' = Emit
       ELSE UNCHANGED <<thought_log, clock, emitted>>
    /\ pc' = "Dispatching1"
    /\ UNCHANGED <<api_key, verbose, model_responses, situation, brain_response, responses,
                   returned, calls, runs>>

\* execute_edge_commands, lines 126-140: the test for edge1's command and,
\* when it is there, the steps up to the posted request.
execute_edge1 ==
    /\ pc = "Dispatching1"
    /\ IF "edge1_command" \in DOMAIN decisions
       THEN /\ thought_log' = LogThought(thought_log, Edge1Agent,
                                  <<"Executing command: ">> \o decisions["edge1_command"], clock)
            /\ clock' = clock + LogTicks
            /\ emitted' = Emit
            /\ calls' = Posted(runs, "edge1", EdgePrompt(decisions["edge1_command"]))
            /\ pc' = "Edge1Call"
       ELSE /\ pc' = "Dispatching2"
            /\ UNCHANGED <<thought_log, clock, emitted, calls>>
    /\ UNCHANGED <<api_key, verbose, model_responses, situation, brain_response, decisions,
                   responses, returned, runs>>

\* Lines 140-148: get_completion comes back with r.  re.search on None raises
\* TypeError, which nothing catches: it leaves process_situation.
edge1_response(r) ==
    /\ pc = "Edge1Call"
    /\ calls' = Answered(r)
    /\ model_responses' = Recorded(model_responses, ModelOf("edge1"),
                                   EdgePrompt(decisions["edge1_command"]), r, clock)
    /\ IF r.some
       THEN /\ IF Search("thinking", r.val).found
               THEN /\ thought_log' = LogThought(thought_log, Edge1Agent,
                                          <<"Approach: ">> \o Strip(Search("thinking", r.val).group),
                                          clock + 1)
                    /\ clock' = clock + 1 + LogTicks
                    /\ emitted' = Emit
               ELSE /\ clock' = clock + 1
                    /\ UNCHANGED <<thought_log, emitted>>
            /\ responses' = AppendResponse(responses, EdgeResponse(r.val))
            /\ pc' = "Dispatching2"
       ELSE /\ pc' = "Raised"
            /\ UNCHANGED <<thought_log, clock, emitted, responses>>
    /\ UNCHANGED <<api_key, verbose, situation, brain_response, decisions, returned, runs>>

\* Variant of execute_edge2: the command is sent without being announced.
execute_edge2_unannounced ==
    /\ pc = "Dispatching2"
    /\ IF "edge2_command" \in DOMAIN decisions
       THEN /\ calls' = Posted(runs, "edge2", EdgePrompt(decisions["edge2_command"]))
            /\ pc' = "Edge2Call"
       ELSE /\ pc' = "Aggregating"
            /\ UNCHANGED calls
    /\ UNCHANGED <<api_key, verbose, thought_log, model_responses, clock, situation,
                   brain_response, decisions, responses, returned, emitted, runs>>

\* Lines 150-162, as for edge1.
execute_edge2 ==
    /\ pc = "Dispatching2"
    /\ IF "edge2_command" \in DOMAIN decisions
       THEN /\ thought_log' = LogThought(thought_log, Edge2Agent,
                                  <<"Executing command: ">> \o decisions["edge2_command"], clock)
            /\ clock' = clock + LogTicks
            /\ emitted' = Emit
            /\ calls' = Posted(runs, "edge2", EdgePrompt(decisions["edge2_command"]))
            /\ pc' = "Edge2Call"
       ELSE /\ pc' = "Aggregating"
            /\ UNCHANGED <<thought_log, clock, emitted, calls>>
    /\ UNCHANGED <<api_key, verbose, model_responses, situation, brain_response, decisions,
                   responses, returned, runs>>

\* Lines 162-172, as for edge1.
edge2_response(r) ==
    /\ pc = "Edge2Call"
    /\ calls' = Answered(r)
    /\ model_responses' = Recorded(model_responses, ModelOf("edge2"),
                                   EdgePrompt(decisions["edge2_command"]), r, clock)
    /\ IF r.some
       THEN /\ IF Search("thinking", r.val).found
               THEN /\ thought_log' = LogThought(thought_log, Edge2Agent,
                                          <<"Approach: ">> \o Strip(Search("thinking", r.val).group),
                                          clock + 1)
                    /\ clock' = clock + 1 + LogTicks
                    /\ emitted' = Emit
               ELSE /\ clock' = clock + 1
                    /\ UNCHANGED <<thought_log, emitted>>
            /\ responses' = AppendResponse(responses, EdgeResponse(r.val))
            /\ pc' = "Aggregating"
       ELSE /\ pc' = "Raised"
            /\ UNCHANGED <<thought_log, clock, emitted, responses>>
    /\ UNCHANGED <<api_key, verbose, situation, brain_response, decisions, returned, runs>>

\* process_situation, lines 187-196: the result is built and returned.
process_situation_return ==
    /\ pc = "Aggregating"
    /\ returned' = Append(returned, BuildResult(decisions, responses, brain_response))
    /\ pc' = "Done"
    /\ UNCHANGED <<api_key, verbose, thought_log, model_responses, clock, situation,
                   brain_response, decisions, responses, calls, emitted, runs>>

Next ==
    \/ \E s \in Situations : process_situation(s)
    \/ \E r \in Outcomes(BrainTexts) : brain_decide(r)
    \/ parse_brain_response
    \/ execute_edge1
    \/ \E r \in Outcomes(EdgeTexts) : edge1_response(r)
    \/ execute_edge2
    \/ \E r \in Outcomes(EdgeTexts) : edge2_response(r)
    \/ process_situation_return

Spec == Init /\ [][Next]_vars

\* The same machine on coordinator texts whose commands are empty or blank.
EdgeCaseBrainTexts ==
    { Section("edge1", <<>>),
      Section("edge2", <<" ", "\n">>),
      Section("edge1", <<" ">>) \o Section("edge2", <<>>) }

EdgeCaseNext ==
    \/ \E s \in Situations : process_situation(s)
    \/ \E r \in Outcomes(EdgeCaseBrainTexts) : brain_decide(r)
    \/ parse_brain_response
    \/ execute_edge1
    \/ \E r \in Outcomes(EdgeTexts) : edge1_response(r)
    \/ execute_edge2
    \/ \E r \in Outcomes(EdgeTexts) : edge2_response(r)
    \/ process_situation_return

EdgeCaseSpec == Init /\ [][EdgeCaseNext]_vars

----------------------------------------------------------------------------
(* Construction.                                                           *)

\* What the environment may hold for FIREWORKS_API_KEY: nothing, the empty
\* text, a key.
ApiKeys == {None, Some(<<>>), Some(<<"k">>)}

\* Before the caller constructs the system.
ConfigInit ==
    /\ api_key \in ApiKeys
    /\ verbose = FALSE
    /\ thought_log = <<>>
    /\ model_responses = [m \in ModelNames |-> <<>>]
    /\ clock = 0
    /\ pc = "Unconstructed"
    /\ situation = <<>>
    /\ brain_response = <<>>
    /\ decisions = EmptyDict
    /\ responses = <<>>
    /\ returned = <<>>
    /\ calls = <<>>
    /\ emitted = <<>>
    /\ runs = 0

\* BrainEdgeSystem.__init__(verbose=v), lines 24-32: FireworksAPI() comes
\* first and raises ValueError from _load_api_key when the key is missing, so
\* that no instance comes to exist.
BrainEdgeSystem_init(v) ==
    /\ pc = "Unconstructed"
    /\ IF KeyMissing(api_key)
       THEN /\ pc' = "ConfigError"
            /\ UNCHANGED <<verbose, thought_log, model_responses>>
       ELSE /\ pc' = "Idle"
            /\ verbose' = v
            /\ thought_log' = <<>>
            /\ model_responses' = [m \in ModelNames |-> <<>>]
    /\ UNCHANGED <<api_key, clock, situation, brain_response, decisions, responses,
                   returned, calls, emitted, runs>>

ConfigNext ==
    \/ \E v \in BOOLEAN : BrainEdgeSystem_init(v)
    \/ Next

ConfigSpec == ConfigInit /\ [][ConfigNext]_vars

----------------------------------------------------------------------------
(* parse_brain_response on composed texts.                                 *)

\* Number of tagged sections a composed coordinator text is made of.
MaxSections == 3

\* The sections a composed text is made of: the four recognized tags and one
\* the parser does not know, around an empty, a padded two-line or a plain body.
PieceTags == {"thinking", "reasoning", "edge1", "edge2", "other"}
Bodies == {<<>>, <<" ", "a", "\n", "a", "\n">>, <<"b">>}
Pieces == {Section(t, b) : t \in PieceTags, b \in Bodies}

RECURSIVE Composed(_)
Composed(n) ==
    IF n = 0 THEN {<<>>}
    ELSE LET shorter == Composed(n - 1)
         IN  shorter \cup {t \o p : t \in shorter, p \in Pieces}

ComposedTexts == Composed(MaxSections)

\* The state of a new instance in its first process_situation(s) call, when
\* brain_decide has returned the text t and parse_brain_response is next.
ParsingState(s, t) ==
    /\ thought_log =
           LogThought(LogThought(<<>>, BrainAgent, <<"Analyzing situation: ">> \o s, 0),
                      BrainAgent, <<"Generated response with commands for edge instances">>,
                      LogTicks + 1)
    /\ model_responses =
           [m \in ModelNames |->
               IF m = ModelOf("brain")
               THEN <<[prompt |-> BrainPrompt(s), response |-> t, timestamp |-> LogTicks]>>
               ELSE <<>>]
    /\ clock = 2 * LogTicks + 1
    /\ pc = "Parsing"
    /\ situation = s
    /\ brain_response = t
    /\ decisions = EmptyDict
    /\ responses = <<>>
    /\ returned = <<>>
    /\ calls = <<[run |-> 1, role |-> "brain", model |-> ModelOf("brain"),
                  prompt |-> BrainPrompt(s), status |-> "ok", text |-> t]>>
    /\ emitted = <<2>>
    /\ runs = 1

ParseInit ==
    /\ api_key = Some(<<"k">>)
    /\ verbose \in BOOLEAN
    /\ \E s \in Situations : \E t \in ComposedTexts : ParsingState(s, t)

ParseNext == parse_brain_response

ParseSpec == ParseInit /\ [][ParseNext]_vars

----------------------------------------------------------------------------
(* The two-haiku scenario: the situation of main(), lines 198-203, with a  *)
(* backend that answers in commands and tagged responses.                  *)

\* Coordinator texts of the scenario: the two commands and nothing else, in
\* either order, and one text that also thinks, which is outside it.
ScenarioBrainTexts ==
    { Section("edge1", <<"ocean">>) \o <<"\n">> \o Section("edge2", <<"city">>),
      Section("edge2", <<" ", "city">>) \o Section("edge1", <<"ocean", "\n">>),
      Section("thinking", <<"t">>) \o Section("edge1", <<"ocean">>)
          \o Section("edge2", <<"city">>) }

\* Worker texts of the scenario: a tagged response and nothing else, and one
\* text that also thinks, which is outside it.
ScenarioEdgeTexts ==
    { Section("response", <<"ocean haiku">>),
      <<"\n">> \o Section("response", <<" ", "city haiku", "\n">>),
      Section("thinking", <<"p">>) \o Section("response", <<"o">>) }

ScenarioNext ==
    \/ \E s \in Situations : process_situation(s)
    \/ \E r \in Outcomes(ScenarioBrainTexts) : brain_decide(r)
    \/ parse_brain_response
    \/ execute_edge1
    \/ \E r \in Outcomes(ScenarioEdgeTexts) : edge1_response(r)
    \/ execute_edge2
    \/ \E r \in Outcomes(ScenarioEdgeTexts) : edge2_response(r)
    \/ process_situation_return

ScenarioSpec == Init /\ [][ScenarioNext]_vars

----------------------------------------------------------------------------
(* Vocabulary of the properties.                                           *)

Last(seq) == seq[Len(seq)]

IsPrefix(a, b) == Len(a) <= Len(b) /\ \A i \in 1..Len(a) : a[i] = b[i]

\* The backend calls of run n, in the order they were issued.
RunCalls(n) == SelectSeq(calls, LAMBDA c : c.run = n)
WorkerCalls(n) == SelectSeq(calls, LAMBDA c : c.run = n /\ c.role # "brain")
AnsweredWorkerCalls(n) ==
    SelectSeq(calls, LAMBDA c : c.run = n /\ c.role # "brain" /\ c.status = "ok")
RolesOf(cs) == [i \in 1..Len(cs) |-> cs[i].role]

\* The key a worker role reads its command from, and the roles a decision
\* populates, in role order.
KeyOfRole(role) == IF role = "edge1" THEN "edge1_command" ELSE "edge2_command"
PopulatedRoles(d) ==
    (IF "edge1_command" \in DOMAIN d THEN <<"edge1">> ELSE <<>>) \o
    (IF "edge2_command" \in DOMAIN d THEN <<"edge2">> ELSE <<>>)

\* Whether a text holds a tag's opening or closing token at all.
Mentions(text, tag) == \E i \in 1..Len(text) : text[i] \in {Open(tag), Close(tag)}

\* The tagged pairs of a text: an opening tag and a closing tag after it.
Pairs(tag, text) ==
    LET opens == {i \in 1..Len(text) : text[i] = Open(tag)}
        closes == {i \in 1..Len(text) : text[i] = Close(tag)}
    IN  {p \in opens \X closes : p[1] < p[2]}

\* The first pair: the leftmost opening tag, closed as early as possible.
FirstPair(tag, text) ==
    LET ps == Pairs(tag, text)
    IN  CHOOSE p \in ps : \A q \in ps : p[1] < q[1] \/ (p[1] = q[1] /\ p[2] <= q[2])

\* A text without its leading and trailing whitespace.
Trimmed(text) ==
    LET solid == {i \in 1..Len(text) : ~IsSpace(text[i])}
    IN  IF solid = {} THEN <<>>
        ELSE SubSeq(text, CHOOSE i \in solid : \A j \in solid : i <= j,
                          CHOOSE i \in solid : \A j \in solid : j <= i)

\* The trimmed content of the first pair of the tag.
TaggedContent(tag, text) ==
    LET p == FirstPair(tag, text)
    IN  Trimmed(SubSeq(text, p[1] + 1, p[2] - 1))

\* What a worker's text is to contribute: the tagged response, else the text.
ExpectedEntry(text) ==
    IF Pairs("response", text) # {} THEN TaggedContent("response", text) ELSE text

\* execute_edge_commands has returned in the current run.
Dispatched == pc \in {"Aggregating", "Done"}

----------------------------------------------------------------------------
(* C1.                                                                     *)

\* C1: the workers execute_edge_commands invokes are those whose command the
\* parsed decision populates, in the order edge1 then edge2: at every moment
\* the worker calls issued so far in the run are an initial part of the
\* populated roles in role order, each call carrying its own role's command;
\* and when execute_edge_commands returns, every populated role has been
\* called once and the list holds one entry per populated role, the i-th
\* entry being the one made from the i-th role's backend text - whatever the
\* order of the tags in the coordinator's text.  (A run in which a worker's
\* backend call fails does not return a list: that case is C4 and C5.)
C1_RoleOrder ==
    LET wc == WorkerCalls(runs)
    IN  /\ IsPrefix(RolesOf(wc), PopulatedRoles(decisions))
        /\ \A i \in 1..Len(wc) :
               wc[i].prompt = EdgePrompt(decisions[KeyOfRole(wc[i].role)])
        /\ Dispatched =>
               /\ decisions = ParseBrainResponse(brain_response)
               /\ RolesOf(wc) = PopulatedRoles(decisions)
               /\ Len(responses) = Len(PopulatedRoles(decisions))
               /\ \A i \in 1..Len(responses) : responses[i] = ExpectedEntry(wc[i].text)
        /\ pc = "Done" => Last(returned).edge_responses = responses

\* Both commands present, edge2's tag written first, and the two workers
\* answered differently: the list has edge1's entry first.
C1_Witness ==
    /\ pc = "Done"
    /\ brain_response = Section("edge2", <<"b">>) \o Section("edge1", <<"a">>)
    /\ Len(Last(returned).edge_responses) = 2
    /\ Last(returned).edge_responses[1] # Last(returned).edge_responses[2]
    /\ RolesOf(WorkerCalls(runs)) = <<"edge1", "edge2">>
    /\ Last(returned).edge_responses[1] = ExpectedEntry(WorkerCalls(runs)[1].text)

----------------------------------------------------------------------------
(* C2.                                                                     *)

\* Exactly one of the two command tags occurs in the coordinator's text.
OnlyEdge1 == Pairs("edge1", brain_response) # {} /\ ~Mentions(brain_response, "edge2")
OnlyEdge2 == Pairs("edge2", brain_response) # {} /\ ~Mentions(brain_response, "edge1")

\* C2: when exactly one command tag is in the coordinator's text, no backend
\* call is ever made for the other role, and the list execute_edge_commands
\* returns has exactly one entry, the present role's (so entry 1 is edge2's
\* when only edge2 is there): no placeholder stands for the absent role.
C2_SingleCommand ==
    LET wc == WorkerCalls(runs)
        Alone(role) ==
            /\ \A i \in 1..Len(wc) : wc[i].role = role
            /\ Dispatched =>
                   /\ Len(responses) = 1
                   /\ RolesOf(wc) = <<role>>
                   /\ responses[1] = ExpectedEntry(wc[1].text)
            /\ pc = "Done" => Len(Last(returned).edge_responses) = 1
    IN  pc \notin {"Idle", "Deciding", "Parsing"} =>
            /\ OnlyEdge1 => Alone("edge1")
            /\ OnlyEdge2 => Alone("edge2")

\* Only edge2 populated and the run returned: position 1 is edge2's result.
C2_Witness ==
    /\ pc = "Done"
    /\ OnlyEdge2
    /\ RolesOf(RunCalls(runs)) = <<"brain", "edge2">>
    /\ Last(returned).edge_responses = <<ExpectedEntry(Last(calls).text)>>

----------------------------------------------------------------------------
(* C3.                                                                     *)

\* The coordinator's text holds none of the recognized tags.
NoTags == \A k \in BrainKeys : ~Mentions(brain_response, TagOf(k))

\* C3: when the coordinator's text holds none of the recognized tags, the
\* parsed decision has no field at all, no worker backend call is made in the
\* run, the run does not end in an error, and edge_responses is empty.
C3_NoTags ==
    (pc \notin {"Idle", "Deciding", "Parsing"} /\ NoTags) =>
        /\ decisions = EmptyDict
        /\ DOMAIN decisions = {}
        /\ WorkerCalls(runs) = <<>>
        /\ pc \in {"Dispatching1", "Dispatching2", "Aggregating", "Done"}
        /\ responses = <<>>
        /\ pc = "Done" =>
               /\ Last(returned).edge_responses = <<>>
               /\ DOMAIN Last(returned).brain_decisions = {}

\* A run on a successful, tagless coordinator text has returned.
C3_Witness ==
    /\ pc = "Done"
    /\ brain_response = <<"x">>
    /\ RunCalls(runs)[1].status = "ok"
    /\ Len(RunCalls(runs)) = 1
    /\ Last(returned).edge_responses = <<>>

----------------------------------------------------------------------------
(* C4, C5.                                                                 *)

\* A worker's backend call of the current run came back as a failure.
WorkerFailed(role) ==
    \E i \in 1..Len(calls) :
        calls[i].run = runs /\ calls[i].role = role /\ calls[i].status = "error"

\* C4: a failed worker backend call is caught locally, so the run does not
\* end in an error: process_situation still returns a result.
C4_WorkerFailureContained ==
    (WorkerFailed("edge1") \/ WorkerFailed("edge2")) => pc # "Raised"

\* C5: when both commands are populated and edge1's backend call failed, the
\* run does not end before the edge2 worker has been invoked.
C5_SiblingStillRuns ==
    (/\ pc \in {"Done", "Raised"}
     /\ PopulatedRoles(decisions) = <<"edge1", "edge2">>
     /\ WorkerFailed("edge1"))
        => \E i \in 1..Len(calls) : calls[i].run = runs /\ calls[i].role = "edge2"

----------------------------------------------------------------------------
(* C6.                                                                     *)

\* The coordinator's backend call of the current run failed.
BrainFailed ==
    \E i \in 1..Len(calls) :
        calls[i].run = runs /\ calls[i].role = "brain" /\ calls[i].status = "error"

\* C6: when the coordinator's backend call fails, brain_decide returns the
\* empty text, the decision has no field, no worker is invoked, the run does
\* not end in an error, and the result has an empty edge_responses and an
\* empty raw_brain_response.
C6_BrainFailure ==
    BrainFailed =>
        /\ brain_response = <<>>
        /\ DOMAIN decisions = {}
        /\ WorkerCalls(runs) = <<>>
        /\ responses = <<>>
        /\ pc \in {"Parsing", "Dispatching1", "Dispatching2", "Aggregating", "Done"}
        /\ pc = "Done" =>
               /\ Last(returned).raw_brain_response = <<>>
               /\ Last(returned).edge_responses = <<>>
               /\ DOMAIN Last(returned).brain_decisions = {}

\* A run whose coordinator call failed has returned.
C6_Witness ==
    /\ pc = "Done"
    /\ BrainFailed
    /\ Len(RunCalls(runs)) = 1
    /\ Last(returned).raw_brain_response = <<>>

----------------------------------------------------------------------------
(* C7.                                                                     *)

\* C7: the entries of the list are, in order, those of the workers whose
\* backend call gave a text: the trimmed content of the text's first
\* <response> pair when it has one, the whole text unchanged when not.
C7_ResponseOrRaw ==
    LET aw == AnsweredWorkerCalls(runs)
    IN  /\ Len(responses) = Len(aw)
        /\ \A i \in 1..Len(responses) :
               /\ Pairs("response", aw[i].text) # {} =>
                      responses[i] = TaggedContent("response", aw[i].text)
               /\ Pairs("response", aw[i].text) = {} => responses[i] = aw[i].text
        /\ pc = "Done" => Last(returned).edge_responses = responses

\* One worker answered with a padded tagged response, the other with a text
\* that has no <response> pair: the first entry is trimmed, the second raw.
C7_Witness ==
    /\ pc = "Done"
    /\ Len(AnsweredWorkerCalls(runs)) = 2
    /\ AnsweredWorkerCalls(runs)[1].text =
           Section("thinking", <<"p">>) \o Section("response", <<" ", "y", "\n">>)
    /\ Pairs("response", AnsweredWorkerCalls(runs)[2].text) = {}
    /\ Last(returned).edge_responses =
           << <<"y">>, <<" ">> \o Section("thinking", <<"p">>) \o <<"<response>", "y", "\n">> >>

----------------------------------------------------------------------------
(* C8.                                                                     *)

RECURSIVE SumSeq(_)
SumSeq(seq) == IF seq = <<>> THEN 0 ELSE Head(seq) + SumSeq(Tail(seq))

\* The thought log a returned result shows to its holder.
ResultLog(result) == Deref(result.thought_log)

\* C8 as claimed: a result returned with auditing disabled has no thought_log
\* key, and one returned with auditing enabled has a thought_log as long as
\* the number of log_thought calls of that one run.  Stated for instances
\* all of whose calls have returned, so that no failed run is involved.
C8_PerRunLength ==
    (pc = "Done" /\ Len(returned) = runs) =>
        /\ ~verbose => "thought_log" \notin DOMAIN Last(returned)
        /\ verbose =>
               /\ "thought_log" \in DOMAIN Last(returned)
               /\ Len(ResultLog(Last(returned))) = emitted[runs]

\* C8 as amended: a result returned with auditing disabled has no thought_log
\* key, and one returned with auditing enabled has a thought_log as long as
\* the number of log_thought calls made on the instance in all its runs up to
\* and including this one (that run's count on a first call only).
C8_InstanceLength ==
    pc = "Done" =>
        /\ ~verbose => "thought_log" \notin DOMAIN Last(returned)
        /\ verbose =>
               /\ "thought_log" \in DOMAIN Last(returned)
               /\ Len(ResultLog(Last(returned))) = SumSeq(emitted)
               /\ runs = 1 => Len(ResultLog(Last(returned))) = emitted[1]

\* A second call on a verbose instance has returned; its log is longer than
\* the number of entries its own run emitted.
C8_Witness ==
    /\ pc = "Done"
    /\ verbose
    /\ runs = 2
    /\ Len(ResultLog(Last(returned))) = emitted[1] + emitted[2]
    /\ Len(ResultLog(Last(returned))) > emitted[2]

----------------------------------------------------------------------------
(* C9.                                                                     *)

\* C9: the thought log of a result that has been returned does not change
\* afterwards, whatever is done with the instance.
C9_SnapshotOwned ==
    [][\A i \in 1..Len(returned) :
           "thought_log" \in DOMAIN returned[i] =>
               ResultLog(returned[i])' = ResultLog(returned[i])]_vars

----------------------------------------------------------------------------
(* C10.                                                                    *)

\* C10: in every run the coordinator's call is the first backend call; a
\* worker call is issued only once the coordinator's call of that run has
\* come back and its text has been parsed into the decision the worker's
\* command is taken from; and no two backend calls are in flight together.
C10_CoordinatorFirst ==
    LET rc == RunCalls(runs)
    IN  /\ \A j \in 1..Len(calls) :
               calls[j].role # "brain" =>
                   \E i \in 1..(j - 1) :
                       /\ calls[i].run = calls[j].run
                       /\ calls[i].role = "brain"
                       /\ calls[i].status # "pending"
        /\ \A j \in 1..(Len(calls) - 1) : calls[j].status # "pending"
        /\ Len(rc) >= 1 => rc[1].role = "brain"
        /\ Len(rc) >= 2 =>
               /\ rc[1].status = "ok"
               /\ brain_response = rc[1].text
               /\ decisions = ParseBrainResponse(brain_response)
               /\ pc \notin {"Idle", "Deciding", "Parsing"}

\* A worker's request is in flight; the coordinator's call has been answered.
C10_Witness ==
    /\ pc = "Edge1Call"
    /\ Last(calls).role = "edge1"
    /\ Last(calls).status = "pending"
    /\ RunCalls(runs)[1].role = "brain"
    /\ RunCalls(runs)[1].status = "ok"
    /\ decisions = ParseBrainResponse(RunCalls(runs)[1].text)

----------------------------------------------------------------------------
(* C11.                                                                    *)

\* The command tag of a role is in the coordinator's text with nothing but
\* whitespace (or nothing at all) between its opening and closing tag.
BlankCommand(role) ==
    LET tag == TagOf(KeyOfRole(role))
    IN  /\ Pairs(tag, brain_response) # {}
        /\ TaggedContent(tag, brain_response) = <<>>

\* The run is past the point where execute_edge_commands posts the role's call.
PastDispatch(role) ==
    \/ pc \in {"Aggregating", "Done"}
    \/ role = "edge1" /\ pc \in {"Edge1Call", "Dispatching2", "Edge2Call", "Raised"}
    \/ role = "edge2" /\ pc = "Edge2Call"

\* C11: a command tag that encloses nothing or only whitespace still counts
\* as present: the decision stores the empty text under the role's key, the
\* role's worker is invoked (with the empty command), and when
\* execute_edge_commands returns, the worker's entry is in the list.
C11_BlankCommandPresent ==
    LET wc == WorkerCalls(runs)
    IN  \A role \in {"edge1", "edge2"} :
            (pc \notin {"Idle", "Deciding", "Parsing"} /\ BlankCommand(role)) =>
                /\ KeyOfRole(role) \in DOMAIN decisions
                /\ decisions[KeyOfRole(role)] = <<>>
                /\ PastDispatch(role) =>
                       \E i \in 1..Len(wc) :
                           /\ wc[i].role = role
                           /\ wc[i].prompt = EdgePrompt(<<>>)
                           /\ Dispatched =>
                                  /\ i <= Len(responses)
                                  /\ responses[i] = ExpectedEntry(wc[i].text)
                /\ pc = "Done" =>
                       Len(Last(returned).edge_responses) = Len(PopulatedRoles(decisions))

\* Both commands blank, both workers invoked, two entries returned.
C11_Witness ==
    /\ pc = "Done"
    /\ BlankCommand("edge1") /\ BlankCommand("edge2")
    /\ Last(returned).brain_decisions["edge1_command"] = <<>>
    /\ Last(returned).brain_decisions["edge2_command"] = <<>>
    /\ RolesOf(WorkerCalls(runs)) = <<"edge1", "edge2">>
    /\ Len(Last(returned).edge_responses) = 2

----------------------------------------------------------------------------
(* C12, C13.                                                               *)

\* parse_brain_response has returned in the current run.
Parsed == pc \notin {"Idle", "Deciding", "Parsing"}

\* C12: for a text composed of tagged sections, recognized or not, in any
\* order, the decision has a key for exactly the recognized tags that occur
\* in the text, each value is the text enclosed by that tag without its
\* leading and trailing whitespace, and an unrecognized tag adds no key.
C12_ExactSubset ==
    Parsed =>
        /\ DOMAIN decisions = {k \in BrainKeys : Mentions(brain_response, TagOf(k))}
        /\ \A k \in DOMAIN decisions :
               /\ decisions[k] = TaggedContent(TagOf(k), brain_response)
               /\ decisions[k] # <<>> =>
                      ~IsSpace(Head(decisions[k])) /\ ~IsSpace(Last(decisions[k]))

\* An unrecognized section, then edge2 with a padded two-line body, then
\* thinking: two keys, the padded body trimmed, its inner newline kept.
C12_Witness ==
    /\ pc = "Dispatching1"
    /\ brain_response = Section("other", <<"b">>)
                            \o Section("edge2", <<" ", "a", "\n", "a", "\n">>)
                            \o Section("thinking", <<"b">>)
    /\ DOMAIN decisions = {"edge2_command", "thinking"}
    /\ decisions["edge2_command"] = <<"a", "\n", "a">>
    /\ decisions["thinking"] = <<"b">>

\* The positions of a token in a text.
Positions(text, tok) == {i \in 1..Len(text) : text[i] = tok}
Least(set) == CHOOSE i \in set : \A j \in set : i <= j

\* C13: when a recognized tag occurs in the text, the field is the trimmed
\* text between the first opening tag and the first closing tag after it,
\* newlines included; what follows that closing tag - a second occurrence of
\* the tag in particular - does not change the field.
C13_FirstMatch ==
    Parsed =>
        \A k \in BrainKeys :
            LET opens == Positions(brain_response, Open(TagOf(k)))
                o == Least(opens)
                closes == {c \in Positions(brain_response, Close(TagOf(k))) : c > o}
                c == Least(closes)
            IN  IF opens = {} \/ closes = {}
                THEN k \notin DOMAIN decisions
                ELSE /\ k \in DOMAIN decisions
                     /\ decisions[k] = Trimmed(SubSeq(brain_response, o + 1, c - 1))
                     /\ decisions[k] = ParseBrainResponse(SubSeq(brain_response, 1, c))[k]

\* edge1 occurs twice with different bodies: the first one is the command.
C13_Witness ==
    /\ pc = "Dispatching1"
    /\ brain_response = Section("edge1", <<"b">>)
                            \o Section("edge1", <<" ", "a", "\n", "a", "\n">>)
    /\ decisions["edge1_command"] = <<"b">>

----------------------------------------------------------------------------
(* C14.                                                                    *)

\* C14: when the environment holds no key (or an empty one), constructing
\* the system raises: no instance exists, process_situation never runs and
\* no backend call is ever issued.
C14_MissingKeyFatal ==
    (api_key = None \/ api_key = Some(<<>>)) =>
        /\ pc \in {"Unconstructed", "ConfigError"}
        /\ runs = 0
        /\ calls = <<>>
        /\ returned = <<>>
        /\ thought_log = <<>>
        /\ \A m \in ModelNames : model_responses[m] = <<>>

\* The constructor has raised for want of a key.
C14_Witness ==
    /\ pc = "ConfigError"
    /\ api_key = None
    /\ calls = <<>>

----------------------------------------------------------------------------
(* C15.                                                                    *)

\* The phases of one run, in the order of the state machine.
PhaseOrder == <<"Idle", "Deciding", "Parsing", "Dispatching", "Aggregating", "Done">>

\* The phase a position of process_situation belongs to; a raised run is in
\* no phase.
Phase(p) ==
    IF p \in {"Dispatching1", "Edge1Call", "Dispatching2", "Edge2Call"}
    THEN "Dispatching"
    ELSE p

PhaseIndex(p) == CHOOSE i \in 1..Len(PhaseOrder) : PhaseOrder[i] = Phase(p)

\* C15: every step of a run stays within the phases, either inside the current
\* phase or entering the next one in order; the only step out of Done is a
\* new call, which enters Deciding.
C15_PhaseOrder ==
    [][ /\ \E i \in 1..Len(PhaseOrder) : PhaseOrder[i] = Phase(pc')
        /\ \/ Phase(pc') = Phase(pc)
           \/ PhaseIndex(pc') = PhaseIndex(pc) + 1
           \/ pc = "Done" /\ pc' = "Deciding" /\ runs' = runs + 1 ]_vars

----------------------------------------------------------------------------
(* C16, C17.                                                               *)

\* Number of log_thought calls made by the runs before run i.
Offset(i) == SumSeq(SubSeq(emitted, 1, i - 1))

\* The part of the log where the entries of run i belong, were none lost:
\* as many entries as run i emitted, after those of the runs before it.
RunBlock(i) == SubSeq(thought_log, Offset(i) + 1, Offset(i) + emitted[i])

\* The entry a run opens with (brain_decide, line 66).
OpensRun(entry) ==
    /\ entry.agent = BrainAgent
    /\ \E s \in Situations : entry.thought = <<"Analyzing situation: ">> \o s

\* C16: with auditing enabled the log holds every entry of every run made on
\* the instance so far, the entries of each run in one block placed after the
\* blocks of the runs before it: each block opens with its run's situation
\* entry and holds no other, and timestamps grow along the whole log.
C16_LogPersists ==
    verbose =>
        /\ Len(thought_log) = SumSeq(emitted)
        /\ \A i \in 1..runs :
               LET block == RunBlock(i) IN
               /\ Len(block) = emitted[i]
               /\ OpensRun(block[1])
               /\ \A j \in 2..Len(block) : ~OpensRun(block[j])
        /\ \A j \in 1..(Len(thought_log) - 1) :
               thought_log[j].timestamp < thought_log[j + 1].timestamp

\* A second run on a verbose instance has ended, and the entries of the
\* first run are still there, in front of those of the second.
C16_Witness ==
    /\ verbose
    /\ runs = 2
    /\ pc = "Done"
    /\ emitted[1] >= 3
    /\ emitted[2] >= 3
    /\ Len(thought_log) = emitted[1] + emitted[2]

\* C17: no step removes, rewrites or reorders an entry of the log; the log
\* after a step is the log before it, possibly with entries added at the end.
C17_AppendOnly == [][IsPrefix(thought_log, thought_log')]_vars

\* A log of a second run that has grown by several entries, a coordinator's
\* and a worker's among them.
C17_Witness ==
    /\ verbose
    /\ runs = 2
    /\ Len(thought_log) > emitted[1] + 2
    /\ Last(thought_log).agent \in {Edge1Agent, Edge2Agent}
    /\ thought_log[1].agent = BrainAgent

----------------------------------------------------------------------------
(* C18, C19.                                                               *)

\* An entry without its timestamp.
Said(agent, thought) == [agent |-> agent, thought |-> thought]
Saying(entry) == Said(entry.agent, entry.thought)
Sayings(entries) == [i \in 1..Len(entries) |-> Saying(entries[i])]

\* The coordinator's call of the current run has come back.
Decided == runs >= 1 /\ pc \notin {"Idle", "Deciding"}

\* The coordinator's text of the current run holds a tagged thinking section
\* and has been parsed.
ThoughtParsed == Parsed /\ Pairs("thinking", brain_response) # {}

\* The entries the coordinator is to have emitted in the current run by now.
CoordinatorSayings ==
    <<Said(BrainAgent, <<"Analyzing situation: ">> \o situation)>> \o
    (IF Decided
     THEN <<Said(BrainAgent, <<"Generated response with commands for edge instances">>)>>
     ELSE <<>>) \o
    (IF ThoughtParsed
     THEN <<Said(BrainAgent,
                 <<"Thought process: ">> \o TaggedContent("thinking", brain_response))>>
     ELSE <<>>)

\* C18: in every run the coordinator's situation entry is emitted while its
\* backend call is yet to come back and the confirming entry once it has,
\* whether the call brought a text or failed; once a text with a tagged
\* thinking section is parsed, a third coordinator entry with the thinking
\* content follows.  On a verbose instance these are the first entries of the
\* run's part of the log, in this order, written around the recorded answer,
\* and every worker entry of the run comes after them.
C18_CoordinatorEntries ==
    (runs >= 1 /\ pc # "Idle") =>
        LET block == RunBlock(runs)
            mine == CoordinatorSayings
            brainCall == RunCalls(runs)[1]
        IN  /\ emitted[runs] >= Len(mine)
            /\ pc \in {"Deciding", "Parsing", "Dispatching1"} => emitted[runs] = Len(mine)
            /\ pc = "Deciding" => brainCall.status = "pending"
            /\ verbose =>
                   /\ SubSeq(Sayings(block), 1, Len(mine)) = mine
                   /\ \A j \in 1..Len(block) :
                          block[j].agent = BrainAgent <=> j <= Len(mine)
                   /\ brainCall.status = "ok" =>
                          LET answer == Last(model_responses[ModelOf("brain")])
                          IN  /\ block[1].timestamp < answer.timestamp
                              /\ answer.timestamp < block[2].timestamp

\* On a verbose instance a first run's coordinator call failed and the run
\* ended with two coordinator entries; the second run parsed a thinking
\* section and a worker of it has logged after the three coordinator entries.
C18_Witness ==
    /\ verbose
    /\ runs = 2
    /\ RunCalls(1)[1].status = "error"
    /\ emitted[1] = 2
    /\ ThoughtParsed
    /\ Len(RunBlock(2)) >= 4
    /\ RunBlock(2)[3].agent = BrainAgent
    /\ RunBlock(2)[4].agent = Edge1Agent

AgentOfRole(role) == IF role = "edge1" THEN Edge1Agent ELSE Edge2Agent

\* The entries one worker call is to have emitted by now: the announcement
\* of its command and, once its text is back with a tagged thinking section,
\* the approach.
WorkerSayings(c) ==
    <<Said(AgentOfRole(c.role), <<"Executing command: ">> \o decisions[KeyOfRole(c.role)])>> \o
    (IF c.status = "ok" /\ Pairs("thinking", c.text) # {}
     THEN <<Said(AgentOfRole(c.role), <<"Approach: ">> \o TaggedContent("thinking", c.text))>>
     ELSE <<>>)

\* The worker entries of the calls of a run, call after call.
RECURSIVE AllWorkerSayings(_)
AllWorkerSayings(cs) ==
    IF cs = <<>> THEN <<>> ELSE WorkerSayings(Head(cs)) \o AllWorkerSayings(Tail(cs))

\* C19: every dispatched worker's announcement is emitted by the time its
\* backend call is issued, and exactly one more entry, with the thinking
\* content, once its text is back, if and only if that text holds a tagged
\* thinking section.  On a verbose instance the worker entries of the run's
\* part of the log are exactly these, each worker's announcement before its
\* approach and all of edge1's before all of edge2's.
C19_WorkerEntries ==
    Parsed =>
        LET cs == WorkerCalls(runs)
            theirs == AllWorkerSayings(cs)
        IN  /\ emitted[runs] = Len(CoordinatorSayings) + Len(theirs)
            /\ verbose =>
                   LET block == RunBlock(runs)
                       logged == SelectSeq(block, LAMBDA e : e.agent # BrainAgent)
                   IN  /\ Sayings(logged) = theirs
                       /\ \A j, k \in 1..Len(block) :
                              (block[j].agent = Edge1Agent /\ block[k].agent = Edge2Agent)
                                  => j < k
                       /\ pc \in {"Edge1Call", "Edge2Call"} =>
                              /\ Last(calls).status = "pending"
                              /\ Saying(Last(block)) = WorkerSayings(Last(calls))[1]

\* Both workers have been dispatched on a verbose instance; one's text held a
\* thinking section and the other's did not.
C19_Witness ==
    /\ verbose
    /\ pc = "Done"
    /\ Len(WorkerCalls(runs)) = 2
    /\ Pairs("thinking", WorkerCalls(runs)[1].text) = {}
    /\ Pairs("thinking", WorkerCalls(runs)[2].text) # {}
    /\ Len(SelectSeq(RunBlock(runs), LAMBDA e : e.agent = Edge1Agent)) = 1
    /\ Len(SelectSeq(RunBlock(runs), LAMBDA e : e.agent = Edge2Agent)) = 2

----------------------------------------------------------------------------
(* C20.                                                                    *)

\* What a text decodes to, whatever the instance: a key for each recognized
\* tag with a tagged section, holding that section's trimmed content.
DecodingOf(text, d) ==
    /\ DOMAIN d = {k \in BrainKeys : Pairs(TagOf(k), text) # {}}
    /\ \A k \in DOMAIN d : d[k] = TaggedContent(TagOf(k), text)

\* C20 as claimed: parse_brain_response, for every text and both settings of
\* verbose, leaves the state of the instance unchanged, the audit log in
\* particular, and its result depends on the text only.
C20_Pure ==
    [][pc = "Parsing" =>
          /\ DecodingOf(brain_response, decisions')
          /\ UNCHANGED <<api_key, verbose, model_responses, thought_log>>]_vars

\* C20 as amended: the result of parse_brain_response depends on the text
\* only, and the state of the instance is left unchanged but for the audit
\* log of a verbose instance, which gains exactly one coordinator entry with
\* the thinking content at its end when the text holds a tagged thinking
\* section, and nothing otherwise.
C20_PureButForThinkingEntry ==
    [][pc = "Parsing" =>
          /\ DecodingOf(brain_response, decisions')
          /\ UNCHANGED <<api_key, verbose, model_responses>>
          /\ IF verbose /\ Pairs("thinking", brain_response) # {}
             THEN /\ Len(thought_log') = Len(thought_log) + 1
                  /\ IsPrefix(thought_log, thought_log')
                  /\ Saying(Last(thought_log')) =
                         Said(BrainAgent, <<"Thought process: ">>
                                              \o TaggedContent("thinking", brain_response))
             ELSE thought_log' = thought_log]_vars

\* A verbose instance has parsed a text with a thinking section and commands:
\* the log has gained the thinking entry, and the decision holds the parts.
C20_Witness ==
    /\ pc = "Dispatching1"
    /\ verbose
    /\ Pairs("thinking", brain_response) # {}
    /\ "edge1_command" \in DOMAIN decisions
    /\ Len(thought_log) = 3
    /\ Head(Last(thought_log).thought) = "Thought process: "

----------------------------------------------------------------------------
(* C21.                                                                    *)

\* The current run is over: it has returned, or it has raised.
RunOver == runs >= 1 /\ pc \in {"Done", "Raised"}

\* C21: a run that is over has called the backend once under the coordinator
\* role and once for each populated command, and no more: one call plus as
\* many as there are populated commands, whether calls failed or not.
C21_NoRetry ==
    RunOver =>
        LET cs == RunCalls(runs) IN
        /\ Len(cs) = 1 + Len(PopulatedRoles(decisions))
        /\ Len(cs) <= 3
        /\ RolesOf(cs) = <<"brain">> \o PopulatedRoles(decisions)

----------------------------------------------------------------------------
(* C22.                                                                    *)

\* A worker text that holds a tagged response and no thinking tag.
ResponseOnly(text) == Pairs("response", text) # {} /\ ~Mentions(text, "thinking")

\* The current run has returned, its coordinator text held the two commands
\* and neither thinking nor reasoning, and every worker text it got held a
\* tagged response only.
InScenario ==
    /\ pc = "Done"
    /\ Pairs("edge1", brain_response) # {}
    /\ Pairs("edge2", brain_response) # {}
    /\ ~Mentions(brain_response, "thinking")
    /\ ~Mentions(brain_response, "reasoning")
    /\ \A c \in {calls[i] : i \in 1..Len(calls)} :
           (c.run = runs /\ c.role # "brain") => (c.status = "ok" /\ ResponseOnly(c.text))

\* C22: in the scenario the result's decision has exactly the two command
\* fields, edge_responses is the tagged response content of edge1's text
\* followed by that of edge2's text, and no thinking is recorded anywhere:
\* the run made four log_thought calls, none of them a 'Thought process' or
\* an 'Approach' entry.
C22_TwoHaikus ==
    InScenario =>
        LET res == Last(returned)
            ws == WorkerCalls(runs)
        IN  /\ DOMAIN res.brain_decisions = {"edge1_command", "edge2_command"}
            /\ res.brain_decisions["edge1_command"] = TaggedContent("edge1", brain_response)
            /\ res.brain_decisions["edge2_command"] = TaggedContent("edge2", brain_response)
            /\ RolesOf(ws) = <<"edge1", "edge2">>
            /\ res.edge_responses = <<TaggedContent("response", ws[1].text),
                                      TaggedContent("response", ws[2].text)>>
            /\ emitted[runs] = 4
            /\ verbose =>
                   \A j \in 1..Len(RunBlock(runs)) :
                       Head(RunBlock(runs)[j].thought) \notin {"Thought process: ", "Approach: "}

\* The scenario on a verbose instance, the coordinator naming edge2 first:
\* the ocean haiku still comes first, and the city haiku comes trimmed.
C22_Witness ==
    /\ InScenario
    /\ verbose
    /\ brain_response[1] = Open("edge2")
    /\ Last(returned).edge_responses = <<<<"ocean haiku">>, <<"city haiku">>>>
    /\ Len(RunBlock(runs)) = 4

----------------------------------------------------------------------------
(* C23.                                                                    *)

\* 1 if a backend call brought back a text with a tagged thinking section.
Thinks(c) == IF c.status = "ok" /\ Pairs("thinking", c.text) # {} THEN 1 ELSE 0

\* 1 + w for each worker call of a sequence of calls.
RECURSIVE WorkerEntries(_)
WorkerEntries(cs) ==
    IF cs = <<>> THEN 0 ELSE 1 + Thinks(Head(cs)) + WorkerEntries(Tail(cs))

\* 2 + t + the sum over the dispatched workers of 1 + w, for run i.
EntriesOfRun(i) == 2 + Thinks(RunCalls(i)[1]) + WorkerEntries(WorkerCalls(i))

RECURSIVE EntriesOfRuns(_)
EntriesOfRuns(n) == IF n = 0 THEN 0 ELSE EntriesOfRuns(n - 1) + EntriesOfRun(n)

\* C23: with auditing enabled, whenever a run is over the log has grown by
\* 2 + t + the sum over its dispatched workers of 1 + w since the run before
\* it was over, so that it holds that many entries for each run made; with
\* auditing disabled the log is empty whatever runs were made.
C23_EntryCount ==
    /\ ~verbose => thought_log = <<>>
    /\ (verbose /\ RunOver) =>
           /\ Len(thought_log) - EntriesOfRuns(runs - 1) = EntriesOfRun(runs)
           /\ Len(thought_log) = EntriesOfRuns(runs)

\* Two runs on a verbose instance have returned: a first with thinking in
\* the coordinator's text and in both workers' (seven entries), a second
\* with no command (two entries).
C23_Witness ==
    /\ verbose
    /\ pc = "Done"
    /\ runs = 2
    /\ Len(returned) = 2
    /\ EntriesOfRun(1) = 7
    /\ EntriesOfRun(2) = 2
    /\ Len(thought_log) = 9

----------------------------------------------------------------------------
(* C24.                                                                    *)

\* Whether a model's history is the record of these calls, one record for
\* each, in their order.
RecordsOf(history, cs) ==
    /\ Len(history) = Len(cs)
    /\ \A i \in 1..Len(cs) :
           /\ history[i].prompt = cs[i].prompt
           /\ history[i].response = cs[i].text
    /\ \A i \in 1..(Len(history) - 1) : history[i].timestamp < history[i + 1].timestamp

\* C24: every call that succeeded has left exactly one record in the history
\* of the model it called, and a call that failed has left none in any: the
\* coordinator's model holds the records of the coordinator's successful
\* calls and no other, the one model of both workers holds the records of
\* edge1's and edge2's successful calls together, in call order, and the
\* model no role is bound to holds none.
C24_Histories ==
    LET good == SelectSeq(calls, LAMBDA c : c.status = "ok")
    IN  /\ RecordsOf(model_responses[ModelOf("brain")],
                     SelectSeq(good, LAMBDA c : c.role = "brain"))
        /\ RecordsOf(model_responses[ModelOf("edge1")],
                     SelectSeq(good, LAMBDA c : c.role # "brain"))
        /\ ModelOf("edge1") = ModelOf("edge2")
        /\ ModelOf("edge1") # ModelOf("brain")
        /\ model_responses["llama"] = <<>>

\* A call of edge2 has failed and left no record, and after a second run the
\* workers' shared history holds a record of edge2 after the one of edge1,
\* the coordinator's history its own two.
C24_Witness ==
    /\ \E i \in 1..Len(calls) : calls[i].role = "edge2" /\ calls[i].status = "error"
    /\ Len(SelectSeq(calls, LAMBDA c : c.role # "brain")) = 3
    /\ Len(model_responses["deepseek"]) = 2
    /\ Len(model_responses["deepseek-v3"]) = 2
    /\ model_responses["deepseek-v3"][1].prompt = EdgePrompt(<<"a">>)
    /\ model_responses["deepseek-v3"][2].prompt = EdgePrompt(<<"b">>)

====
